---- MODULE Spec2Model ----
(***************************************************************************)
(* Model of backend/lambda/chat_handler.py: the chat endpoint's Lambda     *)
(* handler, its request validation, history store access, Bedrock call,   *)
(* error classification and response shaping.                             *)
(*                                                                         *)
(* One invocation of lambda_handler runs at a time.  It is cut into steps  *)
(* at the calls that leave the process (DynamoDB query, Bedrock           *)
(* invoke_model, the two DynamoDB put_item calls); the outcome of each of  *)
(* those calls is chosen by the environment.                               *)
(***************************************************************************)
EXTENDS Integers, Sequences, FiniteSets, TLC

VARIABLES
    pc,                   \* position of the running invocation
    clock,                \* datetime.utcnow(), in ticks
    table,                \* items of the conversations table
    event,                \* the event of the running invocation
    user_message,         \* lambda_handler locals
    conversation_id,
    timestamp,
    conversation_history,
    assistant_message,
    response,             \* what lambda_handler returned
    calls,                \* external calls made by the running invocation, in order
    sent,                 \* the messages list handed to Bedrock
    raised,               \* the raw exception text of a failed Bedrock call
    history_failed,       \* the table.query of this invocation raised
    stored,               \* which of the two put_item calls succeeded
    tableBefore,          \* the table when the invocation started
    error,                \* input of parse_anthropic_error
    parsed                \* its result

vars == <<pc, clock, table, event, user_message, conversation_id, timestamp,
          conversation_history, assistant_message, response, calls, sent,
          raised, history_failed, stored, tableBefore, error, parsed>>

-----------------------------------------------------------------------------
(* Bounds *)

\* invocations in one behaviour (the clock advances once per invocation)
MaxInvocations == 2

\* fragments concatenated into one raw error text given to parse_anthropic_error
MaxFragments == 2

-----------------------------------------------------------------------------
(* Python values *)

None == "<None>"

Min(a, b) == IF a < b THEN a ELSE b

\* s[:n]
Truncate(s, n) == SubSeq(s, 1, Min(Len(s), n))

\* needle in haystack
Contains(haystack, needle) ==
    \E i \in 1..(Len(haystack) - Len(needle) + 1) :
        SubSeq(haystack, i, i + Len(needle) - 1) = needle

UpperCase == <<"A","B","C","D","E","F","G","H","I","J","K","L","M",
               "N","O","P","Q","R","S","T","U","V","W","X","Y","Z">>
LowerCase == <<"a","b","c","d","e","f","g","h","i","j","k","l","m",
               "n","o","p","q","r","s","t","u","v","w","x","y","z">>

LowerChar(c) ==
    IF \E i \in 1..26 : UpperCase[i] = c
    THEN LowerCase[CHOOSE i \in 1..26 : UpperCase[i] = c]
    ELSE c

\* lower left out: the text is matched as it was raised
lower_noop(s) == s

\* str.lower()
RECURSIVE lower(_)
lower(s) ==
    IF s = "" THEN ""
    ELSE LowerChar(SubSeq(s, 1, 1)) \o lower(SubSeq(s, 2, Len(s)))

Whitespace == {" ", "\t", "\n"}

RECURSIVE lstrip(_)
lstrip(s) ==
    IF s /= "" /\ SubSeq(s, 1, 1) \in Whitespace
    THEN lstrip(SubSeq(s, 2, Len(s)))
    ELSE s

RECURSIVE rstrip(_)
rstrip(s) ==
    IF s /= "" /\ SubSeq(s, Len(s), Len(s)) \in Whitespace
    THEN rstrip(SubSeq(s, 1, Len(s) - 1))
    ELSE s

\* strip left out: the message is taken as it was sent
strip_noop(s) == s

\* str.strip()
strip(s) == rstrip(lstrip(s))

-----------------------------------------------------------------------------
(* Configuration and constants *)

ERROR_TYPE_INSUFFICIENT_CREDITS == "insufficient_credits"
ERROR_TYPE_RATE_LIMIT == "rate_limit"
ERROR_TYPE_INVALID_API_KEY == "invalid_api_key"
ERROR_TYPE_ANTHROPIC_ERROR == "anthropic_error"
ERROR_TYPE_SYSTEM_ERROR == "system_error"

MAX_ERROR_MESSAGE_LENGTH == 200

\* generate_response truncates with a literal 200
BEDROCK_ERROR_MESSAGE_LENGTH == 200

\* get_conversation_history(conversation_id, limit=10)
limit == 10

\* timedelta(days=30), in clock ticks
TTL_DAYS == 30

-----------------------------------------------------------------------------
(* Responses *)

\* the headers with Access-Control-Allow-Headers forgotten
get_cors_headers_incomplete ==
    ("Access-Control-Allow-Origin" :> "*") @@
    ("Access-Control-Allow-Methods" :> "POST, OPTIONS") @@
    ("Content-Type" :> "application/json")

get_cors_headers ==
    ("Access-Control-Allow-Origin" :> "*") @@
    ("Access-Control-Allow-Methods" :> "POST, OPTIONS") @@
    ("Access-Control-Allow-Headers" :> "Content-Type, Authorization") @@
    ("Content-Type" :> "application/json")

\* json.dumps of a dict: a JSON text, told apart from the empty string
json_dumps(body) == [json |-> body]

\* the body '' of the preflight response
EmptyString == [empty |-> TRUE]

create_response(status_code, body) ==
    [statusCode |-> status_code,
     headers    |-> get_cors_headers,
     body       |-> json_dumps(body)]

Truthy(x) == x /= None /\ x /= ""

error_response(message, status_code, error_type, can_retry, details) ==
    LET base == [error |-> message, canRetry |-> can_retry]
        typed == IF Truthy(error_type)
                 THEN [error |-> message, canRetry |-> can_retry,
                       errorType |-> error_type]
                 ELSE base
        full == IF Truthy(details)
                THEN typed @@ [details |-> details]
                ELSE typed
    IN  create_response(status_code, full)

success_response(data) == create_response(200, data)

-----------------------------------------------------------------------------
(* Error classification *)

\* An exception: str(error), and its .message attribute when it has one
Exception(text) == [text |-> text, message |-> None]

\* returns <<error_message, error_type, can_retry>>
parse_anthropic_error(e) ==
    LET error_str == e.text
        error_str_lower == lower(error_str)
    IN  IF \/ Contains(error_str_lower, "credit balance is too low")
           \/ Contains(error_str_lower, "insufficient credits")
        THEN <<"Your Anthropic API credit balance is too low. "
                 \o "Please add credits at https://console.anthropic.com/settings/billing",
               ERROR_TYPE_INSUFFICIENT_CREDITS, FALSE>>
        ELSE IF \/ Contains(error_str_lower, "rate limit")
                \/ Contains(error_str_lower, "too many requests")
        THEN <<"Rate limit reached. Please wait a moment and try again. "
                 \o "If this persists, check your Anthropic account limits.",
               ERROR_TYPE_RATE_LIMIT, TRUE>>
        ELSE IF /\ Contains(error_str_lower, "api key")
                /\ \/ Contains(error_str_lower, "invalid")
                   \/ Contains(error_str_lower, "unauthorized")
        THEN <<"API key is invalid or missing. Please check your Anthropic API key configuration. "
                 \o "The key should be stored in AWS SSM Parameter Store at /prod/anthropic-api-key",
               ERROR_TYPE_INVALID_API_KEY, FALSE>>
        ELSE IF \/ Contains(error_str_lower, "authentication")
                \/ Contains(error_str_lower, "unauthorized")
        THEN <<"Authentication failed. Please verify your Anthropic API key is valid and has not expired.",
               ERROR_TYPE_INVALID_API_KEY, FALSE>>
        ELSE IF e.message /= None
        THEN <<"Anthropic API error: " \o e.message,
               ERROR_TYPE_ANTHROPIC_ERROR, TRUE>>
        ELSE <<"An error occurred with the AI service: "
                 \o Truncate(error_str, MAX_ERROR_MESSAGE_LENGTH),
               ERROR_TYPE_ANTHROPIC_ERROR, TRUE>>

\* The except branch of generate_response: the exception it raises in place
\* of e, with the error_type and can_retry attributes it attaches
BedrockError(e) ==
    LET error_str == lower(e.text)
    IN  IF Contains(error_str, "throttling") \/ Contains(error_str, "rate")
        THEN [text |-> "Rate limit reached. Please wait a moment and try again.",
              error_type |-> ERROR_TYPE_RATE_LIMIT, can_retry |-> TRUE]
        ELSE IF \/ Contains(error_str, "access")
                \/ Contains(error_str, "denied")
                \/ Contains(error_str, "authorized")
        THEN [text |-> "Access denied to AWS Bedrock. Please ensure the Lambda has proper IAM permissions.",
              error_type |-> ERROR_TYPE_INVALID_API_KEY, can_retry |-> FALSE]
        ELSE IF Contains(error_str, "model") /\ Contains(error_str, "not found")
        THEN [text |-> "Claude model not available in Bedrock. Please enable Claude models in your AWS account.",
              error_type |-> ERROR_TYPE_SYSTEM_ERROR, can_retry |-> FALSE]
        ELSE [text |-> "AI service error: " \o Truncate(e.text, BEDROCK_ERROR_MESSAGE_LENGTH),
              error_type |-> ERROR_TYPE_ANTHROPIC_ERROR, can_retry |-> TRUE]

\* the except branch calling error_response without a status code, which
\* then takes its default, 400
ProcessingFailed_default_status(e) ==
    LET error_type == IF "error_type" \in DOMAIN e
                      THEN e.error_type ELSE ERROR_TYPE_SYSTEM_ERROR
        can_retry == IF "can_retry" \in DOMAIN e THEN e.can_retry ELSE TRUE
    IN  error_response(e.text, 400, error_type, can_retry, None)

\* The except branch of lambda_handler's processing block: the response for
\* an exception e carrying error_type and can_retry
ProcessingFailed(e) ==
    LET error_type == IF "error_type" \in DOMAIN e
                      THEN e.error_type ELSE ERROR_TYPE_SYSTEM_ERROR
        can_retry == IF "can_retry" \in DOMAIN e THEN e.can_retry ELSE TRUE
        error_message == e.text
        second == error_type = ERROR_TYPE_SYSTEM_ERROR
                  /\ ~Contains(error_message, "Anthropic")
        config == \/ Contains(error_message, "API key")
                  \/ Contains(error_message, "SSM")
                  \/ Contains(error_message, "Parameter")
    IN  IF second /\ config
        THEN error_response(error_message, 500, ERROR_TYPE_INVALID_API_KEY, FALSE, None)
        ELSE IF second
        THEN error_response("I'm having trouble processing your request. "
                              \o "This might be a temporary issue. Please try again in a moment.",
                            500, error_type, TRUE, None)
        ELSE error_response(error_message, 500, error_type, can_retry, None)

-----------------------------------------------------------------------------
(* Requests *)

\* JSON scalars as json.loads yields them; Absent stands for a missing key
JStr(s) == [t |-> "string", s |-> s]
JNum(s) == [t |-> "number", s |-> s]
JNull == [t |-> "null", s |-> ""]
Absent == [t |-> "absent", s |-> ""]
JObject(message, conversationId) ==
    [t |-> "object",
     fields |-> [message |-> message, conversationId |-> conversationId]]
JArray == [t |-> "array", s |-> ""]

\* event['body']: None, or a string that is or is not well-formed JSON
PyNone == [py |-> "None"]
PyStr(wellformed, encodes) ==
    [py |-> "str", wellformed |-> wellformed, encodes |-> encodes]

\* json.loads: the value, or the exception raised
json_loads(b) ==
    IF b.py = "None"
    THEN [raises |-> "TypeError",
          text |-> "the JSON object must be str, bytes or bytearray, not NoneType"]
    ELSE IF ~b.wellformed
    THEN [raises |-> "JSONDecodeError",
          text |-> "Expecting value: line 1 column 1 (char 0)"]
    ELSE [raises |-> None, value |-> b.encodes]

\* dict.get(key, default)
dict_get(d, key, default) ==
    IF d.fields[key] = Absent THEN default ELSE d.fields[key]

\* Python truth value of a JSON scalar (None for a missing key)
IsTrue(v) ==
    CASE v.t = "string" -> v.s /= ""
      [] v.t = "number" -> v.s /= "0"
      [] OTHER -> FALSE

\* type(v).__name__
type_name(v) ==
    CASE v.t = "string" -> "str"
      [] v.t = "number" -> "int"
      [] v.t = "array" -> "list"
      [] v.t = "object" -> "dict"
      [] OTHER -> "NoneType"

\* The request parsing block of lambda_handler: either the response it
\* returns, or the validated user_message and conversation_id
ParseRequest(ev) ==
    LET rejected(message) ==
            [returns |-> TRUE,
             response |-> error_response(message, 400, ERROR_TYPE_SYSTEM_ERROR,
                                         FALSE, None)]
    IN  IF "body" \notin DOMAIN ev
        THEN rejected("Missing request body")
        ELSE LET loaded == json_loads(ev.body)
        IN  IF loaded.raises = "JSONDecodeError"
            THEN rejected("Invalid JSON in request body")
            ELSE IF loaded.raises /= None
            THEN rejected("Error parsing request: " \o loaded.text)
            ELSE LET body == loaded.value
            IN  IF body.t /= "object"
                THEN rejected("Error parsing request: object has no attribute 'get'")
                ELSE LET message == dict_get(body, "message", JStr(""))
                         cid == dict_get(body, "conversationId", JNull)
                IN  IF message.t /= "string"
                    THEN rejected("Error parsing request: '" \o type_name(message)
                                  \o "' object has no attribute 'strip'")
                    ELSE IF strip(message.s) = ""
                    THEN rejected("Message cannot be empty")
                    ELSE IF ~IsTrue(cid)
                    THEN rejected("conversationId is required")
                    ELSE [returns |-> FALSE,
                          user_message |-> strip(message.s),
                          conversation_id |-> cid]

\* Inputs
Messages == {Absent, JNull, JNum("5"), JStr(""), JStr(" \t\n"), JStr("  hi  ")}
ConversationIds == {Absent, JNull, JNum("0"), JStr(""), JStr("c1"), JStr("c2")}
Bodies ==
    {PyNone, PyStr(FALSE, JNull), PyStr(TRUE, JNull), PyStr(TRUE, JArray)}
    \cup {PyStr(TRUE, JObject(m, c)) : m \in Messages, c \in ConversationIds}
Methods == {"OPTIONS", "POST", "GET"}
Events ==
    {[httpMethod |-> m] : m \in Methods}
    \cup {[httpMethod |-> m, body |-> b] : m \in Methods, b \in Bodies}
    \cup {[body |-> b] : b \in Bodies}

\* event.get('httpMethod')
httpMethod(ev) == IF "httpMethod" \in DOMAIN ev THEN ev.httpMethod ELSE None

-----------------------------------------------------------------------------
(* The conversations table *)

\* table.put_item: an item replaces the item that has its key
\* (conversationId, timestamp)
put_item(tbl, item) ==
    {i \in tbl : ~(i.conversationId = item.conversationId
                   /\ i.timestamp = item.timestamp)} \cup {item}

\* the items of a partition, ascending by sort key, as a sequence
RECURSIVE Ascending(_)
Ascending(items) ==
    IF items = {} THEN <<>>
    ELSE LET first == CHOOSE i \in items :
                          \A j \in items : i.timestamp <= j.timestamp
         IN  <<first>> \o Ascending(items \ {first})

\* table.query(KeyConditionExpression, ScanIndexForward=True, Limit)
query(tbl, conv_id, Limit) ==
    LET all == Ascending({i \in tbl : i.conversationId = conv_id})
    IN  SubSeq(all, 1, Min(Len(all), Limit))

\* what a failing DynamoDB call raises
PutItemError == "An error occurred (InternalServerError) when calling the PutItem operation"
QueryError == "An error occurred (InternalServerError) when calling the Query operation"

\* store_message without its try/except: a failed put_item propagates
store_message_unguarded(tbl, conv_id, sender, message, ts, now, ok) ==
    IF ok
    THEN [raises |-> None,
          table  |-> put_item(tbl, [conversationId |-> conv_id,
                                    timestamp      |-> ts,
                                    sender         |-> sender,
                                    message        |-> message,
                                    ttl            |-> now + TTL_DAYS])]
    ELSE [raises |-> PutItemError, table |-> tbl]

\* store_message; ok: whether dynamodb.Table and put_item raised nothing.
\* now is datetime.now() on the model's clock, counted in days for the ttl.
\* Yields the table afterwards and the exception that leaves the function
store_message(tbl, conv_id, sender, message, ts, now, ok) ==
    IF ok
    THEN [raises |-> None,
          table  |-> put_item(tbl, [conversationId |-> conv_id,
                                    timestamp      |-> ts,
                                    sender         |-> sender,
                                    message        |-> message,
                                    ttl            |-> now + TTL_DAYS])]
    ELSE [raises |-> None, table |-> tbl]

\* get_conversation_history without its try/except: a failed query propagates
get_conversation_history_unguarded(tbl, conv_id, lim, ok) ==
    IF ok
    THEN LET items == query(tbl, conv_id, lim * 2)
         IN  [raises |-> None,
              value  |-> [k \in 1..Len(items) |->
                            [role    |-> IF items[k].sender = "user"
                                         THEN "user" ELSE "assistant",
                             content |-> items[k].message]]]
    ELSE [raises |-> QueryError, value |-> <<>>]

\* get_conversation_history; ok: whether the query raised nothing.
\* Yields the messages and the exception that leaves the function
get_conversation_history(tbl, conv_id, lim, ok) ==
    IF ok
    THEN LET items == query(tbl, conv_id, lim * 2)
         IN  [raises |-> None,
              value  |-> [k \in 1..Len(items) |->
                            [role    |-> IF items[k].sender = "user"
                                         THEN "user" ELSE "assistant",
                             content |-> items[k].message]]]
    ELSE [raises |-> None, value |-> <<>>]

-----------------------------------------------------------------------------
(* Bedrock *)

\* What bedrock.invoke_model does: raise, or return a body with content
Raises(text) == [raises |-> text, content |-> <<>>]
Returns(content) == [raises |-> None, content |-> content]

\* call_bedrock_claude on that outcome: the text, or the exception re-raised
call_bedrock_claude(outcome) ==
    IF outcome.raises /= None
    THEN [raises |-> outcome.raises]
    ELSE IF Len(outcome.content) > 0
    THEN [raises |-> None, value |-> outcome.content[1]]
    ELSE [raises |-> "No content in Bedrock response"]

\* generate_response's messages array
BuildMessages(user_msg, history) ==
    Append(history, [role |-> "user", content |-> user_msg])

\* generate_response answering with an apology instead of raising
generate_response_fallback(outcome) ==
    LET r == call_bedrock_claude(outcome)
    IN  IF r.raises = None
        THEN [raises |-> FALSE, value |-> r.value]
        ELSE [raises |-> FALSE, value |-> "Sorry, something went wrong."]

\* generate_response on the outcome of the Bedrock call: the assistant
\* message, or the classified exception
generate_response(outcome) ==
    LET r == call_bedrock_claude(outcome)
    IN  IF r.raises = None
        THEN [raises |-> FALSE, value |-> r.value]
        ELSE [raises |-> TRUE, error |-> BedrockError(Exception(r.raises))]

ErrorFragments ==
    {"ThrottlingException", "Rate exceeded", "credit balance is too low",
     "Your Credit Balance Is Too Low", "AccessDeniedException",
     "not authorized", "model", "Not Found", "rate limit",
     "SSM Parameter", "timed out"}

BedrockErrorTexts ==
    ErrorFragments \cup {f \o ": " \o g : f, g \in ErrorFragments}

BedrockOutcomes ==
    {Returns(<<"Use boto3.">>), Returns(<<>>)}
    \cup {Raises(t) : t \in BedrockErrorTexts}

-----------------------------------------------------------------------------
(* lambda_handler *)

NotStored == [user |-> FALSE, assistant |-> FALSE]

Init ==
    /\ pc = "idle"
    /\ clock = 0
    /\ table = {}
    /\ event = None
    /\ user_message = None
    /\ conversation_id = None
    /\ timestamp = None
    /\ conversation_history = <<>>
    /\ assistant_message = None
    /\ response = None
    /\ calls = <<>>
    /\ sent = <<>>
    /\ raised = None
    /\ history_failed = FALSE
    /\ stored = NotStored
    /\ tableBefore = {}
    /\ error = None
    /\ parsed = <<>>

\* request_id = str(uuid.uuid4()): one per invocation
request_id == clock

\* the preflight answered through create_response, which JSON-encodes the body
Preflight_encoded == create_response(200, "")

\* The response of the CORS preflight branch
Preflight ==
    [statusCode |-> 200, headers |-> get_cors_headers, body |-> EmptyString]

\* lambda_handler up to its first external call: the preflight branch, the
\* request parsing block and the reading of the clock
Invoke(ev) ==
    /\ pc = "idle"
    /\ clock < MaxInvocations
    /\ event' = ev
    /\ tableBefore' = table
    /\ IF httpMethod(ev) = "OPTIONS"
       THEN /\ response' = Preflight
            /\ pc' = "done"
            /\ UNCHANGED <<user_message, conversation_id, timestamp>>
       ELSE LET req == ParseRequest(ev)
            IN  IF req.returns
                THEN /\ response' = req.response
                     /\ pc' = "done"
                     /\ UNCHANGED <<user_message, conversation_id, timestamp>>
                ELSE /\ user_message' = req.user_message
                     /\ conversation_id' = req.conversation_id
                     /\ timestamp' = clock
                     /\ pc' = "history"
                     /\ UNCHANGED response
    /\ UNCHANGED <<clock, table, conversation_history, assistant_message,
                   calls, sent, raised, history_failed, stored, error, parsed>>

\* conversation_history = get_conversation_history(conversation_id)
LoadHistory(ok) ==
    /\ pc = "history"
    /\ history_failed' = ~ok
    /\ calls' = Append(calls, "query")
    /\ LET r == get_conversation_history(table, conversation_id, limit, ok)
       IN  IF r.raises /= None
           THEN /\ response' = ProcessingFailed([text |-> r.raises])
                /\ pc' = "done"
                /\ UNCHANGED conversation_history
           ELSE /\ conversation_history' = r.value
                /\ pc' = "generate"
                /\ UNCHANGED response
    /\ UNCHANGED <<clock, table, event, user_message, conversation_id,
                   timestamp, assistant_message, sent, raised,
                   stored, tableBefore, error, parsed>>

\* assistant_message = generate_response(...), and on an exception the
\* except branch of the processing block
Generate(outcome) ==
    /\ pc = "generate"
    /\ sent' = BuildMessages(user_message, conversation_history)
    /\ calls' = Append(calls, "invoke_model")
    /\ raised' = call_bedrock_claude(outcome).raises
    /\ LET r == generate_response(outcome)
       IN  IF r.raises
           THEN /\ response' = ProcessingFailed(r.error)
                /\ pc' = "done"
                /\ UNCHANGED assistant_message
           ELSE /\ assistant_message' = r.value
                /\ pc' = "store_user"
                /\ UNCHANGED response
    /\ UNCHANGED <<clock, table, event, user_message, conversation_id,
                   timestamp, conversation_history, history_failed, stored,
                   tableBefore, error, parsed>>

\* store_message(conversation_id, 'user', user_message, timestamp)
StoreUser(ok) ==
    /\ pc = "store_user"
    /\ stored' = [stored EXCEPT !.user = ok]
    /\ calls' = Append(calls, "put_item user")
    /\ LET r == store_message(table, conversation_id, "user", user_message,
                              timestamp, clock, ok)
       IN  /\ table' = r.table
           /\ IF r.raises /= None
              THEN /\ response' = ProcessingFailed([text |-> r.raises])
                   /\ pc' = "done"
              ELSE /\ pc' = "store_assistant"
                   /\ UNCHANGED response
    /\ UNCHANGED <<clock, event, user_message, conversation_id, timestamp,
                   conversation_history, assistant_message, sent,
                   raised, history_failed, tableBefore, error, parsed>>

\* store_message(conversation_id, 'assistant', assistant_message, timestamp)
\* and the return of the success response
StoreAssistant(ok) ==
    /\ pc = "store_assistant"
    /\ stored' = [stored EXCEPT !.assistant = ok]
    /\ calls' = Append(calls, "put_item assistant")
    /\ LET r == store_message(table, conversation_id, "assistant",
                              assistant_message, timestamp, clock, ok)
       IN  /\ table' = r.table
           /\ response' =
                  IF r.raises /= None
                  THEN ProcessingFailed([text |-> r.raises])
                  ELSE success_response(
                           [response       |-> assistant_message,
                            conversationId |-> conversation_id,
                            timestamp      |-> timestamp,
                            requestId      |-> request_id])
    /\ pc' = "done"
    /\ UNCHANGED <<clock, event, user_message, conversation_id, timestamp,
                   conversation_history, assistant_message, sent, raised,
                   history_failed, tableBefore, error, parsed>>

\* The runtime takes the response; the next invocation starts afresh, later
Return ==
    /\ pc = "done"
    /\ pc' = "idle"
    /\ clock' = clock + 1
    /\ event' = None
    /\ user_message' = None
    /\ conversation_id' = None
    /\ timestamp' = None
    /\ conversation_history' = <<>>
    /\ assistant_message' = None
    /\ response' = None
    /\ calls' = <<>>
    /\ sent' = <<>>
    /\ raised' = None
    /\ history_failed' = FALSE
    /\ stored' = NotStored
    /\ tableBefore' = {}
    /\ UNCHANGED <<table, error, parsed>>

Next ==
    \/ \E ev \in Events : Invoke(ev)
    \/ \E ok \in BOOLEAN : LoadHistory(ok)
    \/ \E outcome \in BedrockOutcomes : Generate(outcome)
    \/ \E ok \in BOOLEAN : StoreUser(ok)
    \/ \E ok \in BOOLEAN : StoreAssistant(ok)
    \/ Return

Spec == Init /\ [][Next]_vars

-----------------------------------------------------------------------------
(* parse_anthropic_error on its own: every raw error is classified once *)

AnthropicFragments ==
    {"Your credit balance is too low", "INSUFFICIENT CREDITS",
     "Rate Limit exceeded", "rate limit", "Too Many Requests",
     "Invalid API key", "unauthorized", "Authentication failed",
     "overloaded", "503"}

RECURSIVE Join(_)
Join(fragments) ==
    IF Len(fragments) = 1 THEN fragments[1]
    ELSE fragments[1] \o " " \o Join(Tail(fragments))

AnthropicErrorTexts ==
    UNION {{Join(q) : q \in [1..k -> AnthropicFragments]} : k \in 1..MaxFragments}

AnthropicErrors ==
    {[text |-> t, message |-> m] :
        t \in AnthropicErrorTexts, m \in {None, "Overloaded"}}

ClassifyInit ==
    /\ pc = "idle"
    /\ clock = 0
    /\ table = {}
    /\ event = None
    /\ user_message = None
    /\ conversation_id = None
    /\ timestamp = None
    /\ conversation_history = <<>>
    /\ assistant_message = None
    /\ response = None
    /\ calls = <<>>
    /\ sent = <<>>
    /\ raised = None
    /\ history_failed = FALSE
    /\ stored = NotStored
    /\ tableBefore = {}
    /\ error \in AnthropicErrors
    /\ parsed = <<>>

Classify ==
    /\ parsed = <<>>
    /\ parsed' = parse_anthropic_error(error)
    /\ UNCHANGED <<pc, clock, table, event, user_message, conversation_id,
                   timestamp, conversation_history, assistant_message,
                   response, calls, sent, raised, history_failed, stored,
                   tableBefore, error>>

ClassifyNext == Classify

SpecClassify == ClassifyInit /\ [][ClassifyNext]_vars

-----------------------------------------------------------------------------
(* Properties *)

Done == pc = "done"

SameLetter(a, b) ==
    a = b \/ \E i \in 1..26 : {a, b} = {UpperCase[i], LowerCase[i]}

\* phrase occurs in text, in any letter case
Mentions(text, phrase) ==
    \E i \in 1..(Len(text) - Len(phrase) + 1) :
        \A k \in 1..Len(phrase) :
            SameLetter(SubSeq(text, i + k - 1, i + k - 1), SubSeq(phrase, k, k))

\* the decoded JSON body of the response
Body == response.body.json

HasBody(ev) == "body" \in DOMAIN ev

\* the body is a string of well-formed JSON that encodes an object
IsJsonObject(ev) ==
    /\ HasBody(ev)
    /\ ev.body.py = "str"
    /\ ev.body.wellformed
    /\ ev.body.encodes.t = "object"

Blank(str) == \A i \in 1..Len(str) : SubSeq(str, i, i) \in Whitespace

MessageEmpty(ev) ==
    LET m == ev.body.encodes.fields.message
    IN  m = Absent \/ (m.t = "string" /\ Blank(m.s))

ConversationIdMissing(ev) ==
    ev.body.encodes.fields.conversationId \in {Absent, JNull, JStr("")}

InvalidRequest(ev) ==
    \/ ~HasBody(ev)
    \/ ev.body = PyNone
    \/ ~IsJsonObject(ev)
    \/ MessageEmpty(ev)
    \/ ConversationIdMissing(ev)

IsValidationError ==
    /\ response.statusCode = 400
    /\ "errorType" \in DOMAIN Body
    /\ Body.errorType = ERROR_TYPE_SYSTEM_ERROR
    /\ Body.canRetry = FALSE

\* C1: a non-OPTIONS request whose body is missing or is not a JSON object,
\* or whose message is empty after trimming, or whose conversationId is
\* missing or empty, is answered 400 with errorType system_error and
\* canRetry false.
C1_InvalidRequestRejected ==
    (Done /\ httpMethod(event) /= "OPTIONS" /\ InvalidRequest(event))
        => IsValidationError

\* a whitespace-only message with a good conversationId was rejected
C1_Witness ==
    /\ Done
    /\ httpMethod(event) = "POST"
    /\ IsJsonObject(event)
    /\ event.body.encodes.fields.message = JStr(" \t\n")
    /\ event.body.encodes.fields.conversationId = JStr("c1")
    /\ IsValidationError

TurnsOf(tbl, conv_id) == {i \in tbl : i.conversationId = conv_id}

Succeeded == Done /\ response.statusCode = 200 /\ calls /= <<>>

\* C2: after a successful request whose two store writes succeeded, the
\* table holds exactly two more turns of the conversation than before, a
\* user turn and an assistant turn, both with the response's timestamp.
C2_TwoNewTurns ==
    (Succeeded /\ stored.user /\ stored.assistant) =>
        /\ Cardinality(TurnsOf(table, conversation_id))
             = Cardinality(TurnsOf(tableBefore, conversation_id)) + 2
        /\ \E i \in TurnsOf(table, conversation_id) :
               i.sender = "user" /\ i.timestamp = Body.timestamp
        /\ \E i \in TurnsOf(table, conversation_id) :
               i.sender = "assistant" /\ i.timestamp = Body.timestamp

CorsHeaders ==
    {"Access-Control-Allow-Origin", "Access-Control-Allow-Methods",
     "Access-Control-Allow-Headers"}

HasCorsHeaders == CorsHeaders \subseteq DOMAIN response.headers

\* C3: every response, on every path, carries the three CORS headers and
\* Content-Type: application/json.
C3_HeadersOnEveryResponse ==
    Done =>
        /\ HasCorsHeaders
        /\ "Content-Type" \in DOMAIN response.headers
        /\ response.headers["Content-Type"] = "application/json"

\* a processing error (500) was answered with the headers
C3_Witness ==
    /\ Done
    /\ response.statusCode = 500
    /\ HasCorsHeaders
    /\ response.headers["Content-Type"] = "application/json"

\* C4: an OPTIONS request, whatever its body, is answered 200 with an empty
\* body and the CORS headers, with no external call and the table untouched.
C4_Preflight ==
    (Done /\ httpMethod(event) = "OPTIONS") =>
        /\ response.statusCode = 200
        /\ response.body = EmptyString
        /\ HasCorsHeaders
        /\ calls = <<>>
        /\ table = tableBefore

\* an OPTIONS request with an unparseable body was answered 200
C4_Witness ==
    /\ Done
    /\ httpMethod(event) = "OPTIONS"
    /\ HasBody(event)
    /\ event.body = PyStr(FALSE, JNull)
    /\ response.statusCode = 200
    /\ response.body = EmptyString

\* C5: when the history query fails, the history is empty, the backend is
\* still called, with the new user message alone, and the failure by itself
\* gives no error response.
C5_HistoryFailureTolerated ==
    history_failed =>
        /\ conversation_history = <<>>
        /\ pc /= "history"
        /\ (pc /= "generate" =>
               /\ Len(calls) >= 2
               /\ calls[2] = "invoke_model"
               /\ sent = <<[role |-> "user", content |-> user_message]>>)
        /\ (Done /\ raised = None => response.statusCode = 200)

\* the query failed for a conversation that has turns, and the request
\* was answered 200
C5_Witness ==
    /\ Done
    /\ history_failed
    /\ TurnsOf(tableBefore, conversation_id) /= {}
    /\ sent = <<[role |-> "user", content |-> user_message]>>
    /\ response.statusCode = 200

\* C6: once the backend call has succeeded, the response is 200 with the
\* assistant text whether or not the store writes succeed.
C6_StorageFailureNotSurfaced ==
    (Done /\ assistant_message /= None) =>
        /\ response.statusCode = 200
        /\ "error" \notin DOMAIN Body
        /\ Body.response = assistant_message

\* both store writes failed and the response is 200
C6_Witness ==
    /\ Done
    /\ assistant_message /= None
    /\ ~stored.user
    /\ ~stored.assistant
    /\ Len(calls) = 4
    /\ response.statusCode = 200

CallOrder == <<"query", "invoke_model", "put_item user", "put_item assistant">>

\* C7: the external calls of one request are a prefix of history load,
\* backend call, user write, assistant write (so each happens at most once,
\* in that order), and no write happens unless the backend call returned.
C7_CallOrder ==
    /\ Len(calls) <= Len(CallOrder)
    /\ calls = SubSeq(CallOrder, 1, Len(calls))
    /\ (Len(calls) >= 3 => raised = None /\ assistant_message /= None)

\* all four calls were made
C7_Witness == Done /\ calls = CallOrder

\* C8: a response with statusCode 400 is returned before any history load,
\* backend call or store write.
C8_RejectedBeforeCalls ==
    (Done /\ response.statusCode = 400) =>
        /\ calls = <<>>
        /\ table = tableBefore

\* an invalid request was rejected while the table held turns
C8_Witness ==
    /\ Done
    /\ response.statusCode = 400
    /\ table /= {}
    /\ calls = <<>>

\* C9: a backend failure whose raw text contains "credit balance is too low"
\* in any letter case is answered with errorType insufficient_credits and
\* canRetry false.
C9_InsufficientCredits ==
    (Done /\ raised /= None
          /\ Mentions(raised, "credit balance is too low")) =>
        /\ "errorType" \in DOMAIN Body
        /\ Body.errorType = ERROR_TYPE_INSUFFICIENT_CREDITS
        /\ Body.canRetry = FALSE

Classified == parsed /= <<>>

IsRateLimit == parsed[2] = ERROR_TYPE_RATE_LIMIT /\ parsed[3] = TRUE

MentionsRateLimit == Mentions(error.text, "rate limit")

MentionsCredits ==
    \/ Mentions(error.text, "credit balance is too low")
    \/ Mentions(error.text, "insufficient credits")

\* C10 as stated: every raw error text containing "rate limit" in any letter
\* case, whatever else it contains, is classified rate_limit, canRetry true.
C10_RateLimitAlways ==
    (Classified /\ MentionsRateLimit) => IsRateLimit

\* C10 as amended: a raw error text containing "rate limit" in any letter
\* case and neither "credit balance is too low" nor "insufficient credits"
\* is classified rate_limit, canRetry true.
C10_RateLimitUnlessCredits ==
    (Classified /\ MentionsRateLimit /\ ~MentionsCredits) => IsRateLimit

\* a text with "Rate Limit" in mixed case next to "unauthorized" was
\* classified rate_limit
C10_Witness ==
    /\ Classified
    /\ error.text = "unauthorized Rate Limit exceeded"
    /\ IsRateLimit

\* the raw text of the failed Bedrock call reaches none of the rules that
\* generate_response tries before "model ... not found"
NoEarlierBedrockRule ==
    /\ ~Mentions(raised, "throttling")
    /\ ~Mentions(raised, "rate")
    /\ ~Mentions(raised, "access")
    /\ ~Mentions(raised, "denied")
    /\ ~Mentions(raised, "authorized")

ModelNotFound ==
    /\ Done
    /\ raised /= None
    /\ Mentions(raised, "model")
    /\ Mentions(raised, "not found")
    /\ NoEarlierBedrockRule

EnableModelMessage ==
    "Claude model not available in Bedrock. Please enable Claude models in your AWS account."

\* C11: a backend failure whose raw text contains "model" and "not found"
\* and matches no earlier rule is answered with errorType system_error,
\* canRetry false and the "enable model" message.
C11_ModelNotFound ==
    ModelNotFound =>
        /\ "errorType" \in DOMAIN Body
        /\ Body.errorType = ERROR_TYPE_SYSTEM_ERROR
        /\ Body.canRetry = FALSE
        /\ Body.error = EnableModelMessage

\* C12: when the backend call fails, the response is 500 and the table is
\* as it was before the request: no turn of the request is stored.
C12_BackendFailureStoresNothing ==
    (Done /\ raised /= None) =>
        /\ response.statusCode = 500
        /\ table = tableBefore
        /\ Len(calls) = 2

\* the backend call failed for a conversation that already has turns, and
\* the request was answered 500 with the table as before
C12_Witness ==
    /\ Done
    /\ raised /= None
    /\ TurnsOf(tableBefore, conversation_id) /= {}
    /\ response.statusCode = 500
    /\ table = tableBefore

====
